---- MODULE Spec2Model ----
(***************************************************************************)
(* A model of fido_host/client.py: the polling driver _call_polling, the   *)
(* legacy U2fClient (register, sign) and the Fido2Client (make_credential, *)
(* get_assertion over CTAP2 and over CTAP1).                               *)
(*                                                                         *)
(* One client object exists per behaviour; Init is the state right after   *)
(* its constructor.  A ceremony is a sequence of steps, one per device     *)
(* round trip; the device's answer to each command is drawn from the       *)
(* answers the transport can give.  Time is counted in ticks of 1/8 s, the *)
(* timeout argument included: a device call takes no time,                 *)
(* event.wait(poll_delay) takes the poll delay (0.25 s, two ticks) or what *)
(* is left of the budget.                                                  *)
(*                                                                         *)
(* Python's None is the empty tuple <<>>, a present value x is <<x>>.      *)
(*                                                                         *)
(* The CTAP1 transport answers register and authenticate with OK or with   *)
(* an ApduError status, get_version with the version string; the CTAP2     *)
(* transport answers with OK or with a CtapError.  utils.Timeout, the      *)
(* hashes, the base64url codec and the default verifiers are not part of   *)
(* client.py: the timer fires when the budget has elapsed, the hashes and  *)
(* the codec are injective tags.                                           *)
(***************************************************************************)
EXTENDS Integers, Sequences, FiniteSets, TLC

\* ------------------------------------------------------------- bounds
MaxKeys == 2
MaxRequests == 2
MaxCreds == 2
MaxTimeout == 8
MaxNumCreds == 3

\* --------------------------------------------------- program constants
DefaultTimeout == 30
TicksPerSecond == 8
PollDelay == 2
PinProtocolVersion == 1

None == <<>>
Some(x) == <<x>>

Origin == "https://example.com"
GoodId == "example.com"
BadId == "evil.test"
\* an identifier the verifier cannot parse
MalformedId == "%%"
Ids == {GoodId, BadId, MalformedId}
DeviceVersion == "U2F_V2"
Versions == {"U2F_V2", "U2F_V1"}
Challenge == "abc"
Pins == {None, Some(""), Some("1234")}
\* the timeout argument: none, or a number of ticks
Timeouts == {None} \cup {Some(t) : t \in 0..MaxTimeout}
Verifiers == {"default", "deny"}

ApduReplies == {"OK", "USE_NOT_SATISFIED", "WRONG_DATA"}
Ctap2Replies == {"OK", "OPERATION_DENIED"}

\* ------------------------------------------------------------ helpers
Min(a, b) == IF a < b THEN a ELSE b

\* bool(x) of an optional number: None and 0 are false
TruthyNum(x) == x # None /\ x[1] # 0
\* bool(x) of an optional string: None and "" are false
TruthyStr(x) == x # None /\ x[1] # ""

sha256(x) == <<"sha256", x>>
hmac_sha256_16(key, msg) == <<"hmac16", key, msg>>
websafe_encode(x) == <<"b64", x>>
websafe_decode(s) == s[2]
dummy_param == <<"zeros32">>

ClientData_build(typ, challenge, origin) == <<"json", typ, challenge, origin>>
\* a hash taken of the base64url form instead of the bytes
ClientData_hash_of_b64(cd) == sha256(websafe_encode(cd))
ClientData_hash(cd) == sha256(cd)
ClientData_b64(cd) == websafe_encode(cd)

\* The verifier functions: "default" is rpid.verify_app_id / verify_rp_id,
\* "deny" a caller-supplied verifier that rejects one identifier and raises
\* on the other.
Verify(v, id, origin) ==
  IF v = "default"
  THEN (IF id = MalformedId THEN "raise"
        ELSE IF id = GoodId /\ origin = Origin THEN "true" ELSE "false")
  ELSE (IF id = GoodId THEN "false" ELSE "raise")

ClientError(code) == [kind |-> "ClientError", code |-> code, value |-> <<>>]
CtapError(code) == [kind |-> "CtapError", code |-> code, value |-> <<>>]
ApduError(code) == [kind |-> "ApduError", code |-> code, value |-> <<>>]
ValueError(msg) == [kind |-> "ValueError", code |-> msg, value |-> <<>>]
Returned(v) == [kind |-> "ok", code |-> "", value |-> <<v>>]
NoResult == [kind |-> "none", code |-> "", value |-> <<>>]

\* One command sent to the device, and the device's answer to it: reply is the
\* status (OK or the error's code), resp the payload of an OK answer.
Cmd(c, chal, app, key, check, pa, pp) ==
  [cmd |-> c, chal |-> chal, app |-> app, key |-> key, check_only |-> check,
   pin_auth |-> pa, pin_protocol |-> pp, reply |-> "", resp |-> <<>>]
Answer(c, reply, resp) == [c EXCEPT !.reply = reply, !.resp = resp]
SimpleCmd(c) == Cmd(c, <<>>, <<>>, 0, FALSE, <<>>, <<>>)

\* A RegisteredKey: version, optional appId, base64url keyHandle (of handle i)
KeyDomain == [version : Versions, appId : {None, Some(BadId)}]
RegisteredKeys ==
  UNION {[1..n -> KeyDomain] : n \in 0..MaxKeys}
KeyHandleB64(i) == websafe_encode(i)
RegisterRequests ==
  UNION {[1..n -> Versions] : n \in 0..MaxRequests}
\* A credential descriptor list of n entries, entry i with id i
CredList(n) == [i \in 1..n |-> [type |-> "public-key", id |-> i]]
CredLists == {None} \cup {Some(CredList(n)) : n \in 0..MaxCreds}

\* ---------------------------------------------------- _call_polling
\* a Timeout built from the caller's timeout alone, none being no time at all
call_polling_budget_no_default(timeout) ==
  IF timeout = None THEN 0 ELSE timeout[1]

\* a Timeout that always takes the default, whatever the caller asked for
call_polling_budget_default_only(timeout) ==
  DefaultTimeout * TicksPerSecond

\* Timeout(timeout or 30): the budget in ticks
call_polling_budget(timeout) ==
  IF TruthyNum(timeout) THEN timeout[1] ELSE DefaultTimeout * TicksPerSecond

\* event.is_set(): the timer has fired
event_is_set(clk, bud) == clk >= bud

\* event.wait(delay): returns after delay, or when the timer fires
event_wait(clk, bud, delay) == Min(clk + delay, bud)

\* a driver that re-raises every ApduError
call_polling_on_reply_reraise(reply) ==
  IF reply = "OK" THEN "return" ELSE "raise"

\* a driver that waits and retries on every ApduError
call_polling_on_reply_retry_all(reply) ==
  IF reply = "OK" THEN "return" ELSE "wait"

\* what one iteration of the loop does with the device's answer
call_polling_on_reply(reply) ==
  IF reply = "OK" THEN "return"
  ELSE IF reply = "USE_NOT_SATISFIED" THEN "wait"
  ELSE "raise"

\* -------------------------------------------------------------- state
VARIABLES
  client,       \* the client object's fields
  supplied,     \* the verify argument the constructor was called with
  device,       \* what the device the constructor was given speaks
  pc,           \* position in the running ceremony
  op,           \* the public method running
  args,         \* the ceremony's arguments
  idx,          \* position of the for loop in its list
  client_data,  \* the ClientData built for the ceremony
  pin_auth,     \* local pin_auth of the CTAP2 path
  pin_protocol, \* local pin_protocol of the CTAP2 path
  clock,        \* ticks since the Timeout of the running _call_polling began
  budget,       \* its budget in ticks
  attempts,     \* calls of func made by the running/last _call_polling
  assertions,   \* local assertions of _ctap2_get_assertion
  log,          \* commands sent to the device in this ceremony, in order
                \* (the retries of one _call_polling are one entry)
  result        \* how the ceremony ended

vars == <<client, supplied, device, pc, op, args, idx, client_data, pin_auth,
          pin_protocol, clock, budget, attempts, assertions, log, result>>

NoArgs ==
  [id |-> "", requests |-> <<>>, keys |-> <<>>, list |-> None, rk |-> FALSE,
   uv |-> FALSE, pin |-> None, timeout |-> None, challenge |-> ""]

\* U2fClient.__init__(device, origin, verify)
U2fClient_init(origin, verify) ==
  [kind |-> "U2fClient", poll_delay |-> PollDelay, ctap |-> "CTAP1",
   origin |-> origin, verify |-> "default", pin_protocol |-> None,
   do_make_credential |-> "none", do_get_assertion |-> "none"]

\* what CTAP2(device) and PinProtocolV1(ctap) do on the device given to
\* Fido2Client: both succeed, the second raises ValueError, the first does
Devices == {"ctap2", "ctap2_no_pin_protocol", "ctap1"}

\* the fields before the try block of Fido2Client.__init__
Fido2Client_fields(origin, verify) ==
  [kind |-> "Fido2Client", poll_delay |-> PollDelay, ctap |-> "unset",
   origin |-> origin, verify |-> verify, pin_protocol |-> None,
   do_make_credential |-> "unset", do_get_assertion |-> "unset"]
\* the except ValueError branch
Fido2Client_fallback(self) ==
  [self EXCEPT !.ctap = "CTAP1",
               !.do_make_credential = "_ctap1_make_credential",
               !.do_get_assertion = "_ctap1_get_assertion"]
\* the dispatch targets set at the head of the try block, and the except
\* branch resetting only one of them
Fido2Client_init_partial_fallback(dev, origin, verify) ==
  LET s0 == [Fido2Client_fields(origin, verify) EXCEPT
               !.do_make_credential = "_ctap2_make_credential",
               !.do_get_assertion = "_ctap2_get_assertion"]
      s1 == [s0 EXCEPT !.ctap = "CTAP2"]
      s2 == [s1 EXCEPT !.pin_protocol = Some(PinProtocolVersion)]
      except(self) == [self EXCEPT !.ctap = "CTAP1",
                         !.do_make_credential = "_ctap1_make_credential"]
  IN CASE dev = "ctap2" -> s2
       [] dev = "ctap2_no_pin_protocol" -> except(s1)
       [] OTHER -> except(s0)
\* Fido2Client.__init__(device, origin, verify): the try block assignment by
\* assignment, left for the except branch where the device makes it raise
Fido2Client_init(dev, origin, verify) ==
  LET s0 == Fido2Client_fields(origin, verify)
      s1 == [s0 EXCEPT !.ctap = "CTAP2"]
      s2 == [s1 EXCEPT !.pin_protocol = Some(PinProtocolVersion)]
      s3 == [s2 EXCEPT !.do_make_credential = "_ctap2_make_credential",
                       !.do_get_assertion = "_ctap2_get_assertion"]
  IN CASE dev = "ctap2" -> s3
       [] dev = "ctap2_no_pin_protocol" -> Fido2Client_fallback(s1)
       [] OTHER -> Fido2Client_fallback(s0)

Idle ==
  /\ pc = "idle" /\ op = "none" /\ args = NoArgs /\ idx = 0
  /\ client_data = None /\ pin_auth = None /\ pin_protocol = None
  /\ clock = 0 /\ budget = 0 /\ attempts = 0 /\ assertions = <<>>
  /\ log = <<>> /\ result = NoResult

Init ==
  /\ supplied \in Verifiers
  /\ \/ device = "ctap1" /\ client = U2fClient_init(Origin, supplied)
     \/ device \in Devices /\ client = Fido2Client_init(device, Origin, supplied)
  /\ Idle

\* ------------------------------------------------------- common steps
\* the ceremony ends: it returns r or raises r
Finish(r) == pc' = "done" /\ result' = r

\* with Timeout(timeout or 30) as event: the driver starts
StartPolling(timeout) ==
  /\ clock' = 0
  /\ budget' = call_polling_budget(timeout)
  /\ attempts' = 0

\* func is called: the first call of a _call_polling is logged, a retry
\* replaces the answer
Polled(c, reply) ==
  IF attempts = 0 THEN Append(log, Answer(c, reply, None))
  ELSE [log EXCEPT ![Len(log)].reply = reply]

\* self.ctap.get_version()
get_version == Answer(SimpleCmd("get_version"), "OK", Some(DeviceVersion))

\* U2fClient._verify_app_id / Fido2Client._verify_rp_id: TRUE when it returns,
\* FALSE when it raises BAD_REQUEST
\* the verifier called without the try/except around it
verify_id_raises_unguarded(c, id) ==
  CASE Verify(c.verify, id, c.origin) = "true" -> None
    [] Verify(c.verify, id, c.origin) = "false" -> Some(ClientError("BAD_REQUEST"))
    [] OTHER -> Some([kind |-> "Exception", code |-> "verifier", value |-> None])
\* _verify_app_id / _verify_rp_id: the exception they raise, None when they
\* return
verify_id_raises(c, id) ==
  IF Verify(c.verify, id, c.origin) = "true"
  THEN None ELSE Some(ClientError("BAD_REQUEST"))
verify_id(c, id) == verify_id_raises(c, id) = None

\* A ceremony's locals outside the polling driver and the CTAP2 path
NoCtap2Locals == UNCHANGED <<pin_auth, pin_protocol, assertions>>
NoPolling == UNCHANGED <<clock, budget, attempts>>

\* ---------------------------------------------------------- U2fClient
\* a register that ignores every ApduError of the check
register_check_outcome_ignore(reply) ==
  IF reply = "OK" THEN "DEVICE_INELIGIBLE" ELSE "continue"

\* lines 129-134: what register does with the answer to a check-only
\* authenticate
register_check_outcome(reply) ==
  IF reply = "OK" THEN "DEVICE_INELIGIBLE"
  ELSE IF reply = "USE_NOT_SATISFIED" THEN "DEVICE_INELIGIBLE"
  ELSE "continue"

\* lines 136-141: the index of the first request of the device's version, 0 if
\* there is none
register_choose(requests, version) ==
  IF \E i \in 1..Len(requests) : requests[i] = version
  THEN CHOOSE i \in 1..Len(requests) :
         /\ requests[i] = version
         /\ \A j \in 1..(i - 1) : requests[j] # version
  ELSE 0

\* line 130: the check-only authenticate of a registered key
register_probe(app_param, key_handle) ==
  Cmd("authenticate", dummy_param, app_param, key_handle, TRUE, None, None)

key_app_id(key, app_id) == IF key.appId = None THEN app_id ELSE key.appId[1]

\* register(): verify the app id, ask the device's version
U2fClient_register ==
  /\ pc = "idle" /\ client.kind = "U2fClient"
  /\ \E app_id \in Ids, requests \in RegisterRequests, keys \in RegisteredKeys,
        timeout \in Timeouts :
       /\ op' = "register"
       /\ args' = [NoArgs EXCEPT !.id = app_id, !.requests = requests,
                                 !.keys = keys, !.timeout = timeout]
       /\ IF verify_id(client, app_id)
          THEN /\ log' = <<get_version>>
               /\ pc' = "register_check" /\ idx' = 1
               /\ UNCHANGED result
          ELSE /\ Finish(verify_id_raises(client, app_id)[1])
               /\ UNCHANGED <<log, idx>>
  /\ NoCtap2Locals /\ NoPolling
  /\ UNCHANGED <<client, supplied, device, client_data>>

\* one pass of the loop over registered_keys
U2fClient_register_check ==
  /\ pc = "register_check" /\ idx <= Len(args.keys)
  /\ LET key == args.keys[idx]
         kid == key_app_id(key, args.id)
     IN IF key.version # DeviceVersion
        THEN idx' = idx + 1 /\ UNCHANGED <<pc, log, result>>
        ELSE IF ~verify_id(client, kid)
        THEN Finish(verify_id_raises(client, kid)[1]) /\ UNCHANGED <<idx, log>>
        ELSE \E reply \in ApduReplies :
               /\ log' = Append(log, Answer(register_probe(sha256(kid),
                                             websafe_decode(KeyHandleB64(idx))),
                                             reply, None))
               /\ IF register_check_outcome(reply) = "continue"
                  THEN idx' = idx + 1 /\ UNCHANGED <<pc, result>>
                  ELSE /\ Finish(ClientError(register_check_outcome(reply)))
                       /\ UNCHANGED idx
  /\ NoCtap2Locals /\ NoPolling
  /\ UNCHANGED <<client, supplied, device, op, args, client_data>>

\* after the loop: choose the request, build the client data, start polling
U2fClient_register_request ==
  /\ pc = "register_check" /\ idx > Len(args.keys)
  /\ LET i == register_choose(args.requests, DeviceVersion)
     IN IF i = 0
        THEN /\ Finish(ClientError("DEVICE_INELIGIBLE"))
             /\ UNCHANGED <<client_data, clock, budget, attempts>>
        ELSE /\ client_data' = Some(ClientData_build("navigator.id.finishEnrollment",
                                                     <<"challenge", i>>, client.origin))
             /\ StartPolling(args.timeout)
             /\ pc' = "register_poll"
             /\ UNCHANGED result
  /\ NoCtap2Locals
  /\ UNCHANGED <<client, supplied, device, op, args, idx, log>>

\* _call_polling(self.poll_delay, timeout, self.ctap.register, ...)
U2fClient_register_poll ==
  /\ pc = "register_poll"
  /\ IF event_is_set(clock, budget)
     THEN /\ Finish(ClientError("TIMEOUT"))
          /\ UNCHANGED <<clock, attempts, log>>
     ELSE \E reply \in ApduReplies :
            /\ attempts' = attempts + 1
            /\ log' = Polled(Cmd("register", ClientData_hash(client_data[1]),
                                 sha256(args.id), 0, FALSE, None, None), reply)
            /\ CASE call_polling_on_reply(reply) = "return" ->
                      /\ Finish(Returned([registrationData |-> websafe_encode("reg_data"),
                                          clientData |-> ClientData_b64(client_data[1])]))
                      /\ UNCHANGED clock
                 [] call_polling_on_reply(reply) = "wait" ->
                      /\ clock' = event_wait(clock, budget, client.poll_delay)
                      /\ UNCHANGED <<pc, result>>
                 [] OTHER ->
                      /\ Finish(ApduError(reply))
                      /\ UNCHANGED clock
  /\ NoCtap2Locals
  /\ UNCHANGED <<client, supplied, device, op, args, idx, client_data, budget>>

\* a sign without its except clause
sign_on_exception_uncaught(exc) == "propagate"

\* line 176: sign catches ApduError only
sign_on_exception(exc) ==
  IF exc.kind = "ApduError" THEN "next" ELSE "propagate"

\* the key handle of the first registered key returned, whichever key signed
sign_result_first_key(cd, signature_data, i) ==
  [clientData |-> ClientData_b64(cd),
   signatureData |-> websafe_encode(signature_data),
   keyHandle |-> KeyHandleB64(1)]

\* lines 181-185: what sign returns when key i of registered_keys has signed
sign_result(cd, signature_data, i) ==
  [clientData |-> ClientData_b64(cd),
   signatureData |-> websafe_encode(signature_data),
   keyHandle |-> KeyHandleB64(i)]

\* sign(): build the client data, ask the device's version
U2fClient_sign ==
  /\ pc = "idle" /\ client.kind = "U2fClient"
  /\ \E app_id \in Ids, keys \in RegisteredKeys, timeout \in Timeouts :
       /\ op' = "sign"
       /\ args' = [NoArgs EXCEPT !.id = app_id, !.challenge = Challenge,
                                 !.keys = keys, !.timeout = timeout]
  /\ client_data' = Some(ClientData_build("navigator.id.getAssertion", Challenge,
                                          client.origin))
  /\ log' = <<get_version>>
  /\ pc' = "sign_loop" /\ idx' = 1
  /\ NoCtap2Locals /\ NoPolling
  /\ UNCHANGED <<client, supplied, device, result>>

\* the head of the loop over registered_keys, up to the call of _call_polling
U2fClient_sign_key ==
  /\ pc = "sign_loop"
  /\ IF idx > Len(args.keys)
     THEN Finish(ClientError("DEVICE_INELIGIBLE")) /\ UNCHANGED idx /\ NoPolling
     ELSE LET key == args.keys[idx]
          IN IF key.version # DeviceVersion
             THEN idx' = idx + 1 /\ UNCHANGED <<pc, result>> /\ NoPolling
             ELSE IF ~verify_id(client, key_app_id(key, args.id))
             THEN /\ Finish(verify_id_raises(client, key_app_id(key, args.id))[1])
                  /\ UNCHANGED idx /\ NoPolling
             ELSE /\ StartPolling(args.timeout)
                  /\ pc' = "sign_poll"
                  /\ UNCHANGED <<idx, result>>
  /\ NoCtap2Locals
  /\ UNCHANGED <<client, supplied, device, op, args, client_data, log>>

\* an exception leaves _call_polling inside sign's try
U2fClient_sign_except(exc) ==
  IF sign_on_exception(exc) = "next"
  THEN idx' = idx + 1 /\ pc' = "sign_loop" /\ UNCHANGED result
  ELSE Finish(exc) /\ UNCHANGED idx

\* _call_polling(self.poll_delay, timeout, self.ctap.authenticate, ...)
U2fClient_sign_poll ==
  /\ pc = "sign_poll"
  /\ IF event_is_set(clock, budget)
     THEN /\ U2fClient_sign_except(ClientError("TIMEOUT"))
          /\ UNCHANGED <<clock, attempts, log>>
     ELSE \E reply \in ApduReplies :
            /\ attempts' = attempts + 1
            /\ log' = Polled(Cmd("authenticate", ClientData_hash(client_data[1]),
                                 sha256(key_app_id(args.keys[idx], args.id)),
                                 websafe_decode(KeyHandleB64(idx)), FALSE,
                                 None, None), reply)
            /\ CASE call_polling_on_reply(reply) = "return" ->
                      /\ Finish(Returned(sign_result(client_data[1], <<"sig", idx>>,
                                                      idx)))
                      /\ UNCHANGED <<clock, idx>>
                 [] call_polling_on_reply(reply) = "wait" ->
                      /\ clock' = event_wait(clock, budget, client.poll_delay)
                      /\ UNCHANGED <<pc, result, idx>>
                 [] OTHER ->
                      /\ U2fClient_sign_except(ApduError(reply))
                      /\ UNCHANGED clock
  /\ NoCtap2Locals
  /\ UNCHANGED <<client, supplied, device, op, args, client_data, budget>>

\* -------------------------------------------------------- Fido2Client
\* get_info(): the device's capability record
Infos == [pin_protocols : {{}, {PinProtocolVersion}},
          clientPin : {None, Some(FALSE), Some(TRUE)}]
PinTokens == {"token"}
\* number_of_credentials of the first assertion response
NumCreds == {None} \cup {Some(n) : n \in 0..MaxNumCreds}

ListOrEmpty(l) == IF l = None THEN <<>> ELSE l[1]

\* lines 239-248: the PIN policy of _ctap2_make_credential
ctap2_make_credential_pin_policy(pin, info) ==
  IF TruthyStr(pin)
  THEN (IF PinProtocolVersion \notin info.pin_protocols
        THEN "unsupported" ELSE "get_pin_token")
  ELSE IF info.clientPin = Some(TRUE) THEN "pin_required"
  ELSE "no_pin"

\* lines 327-336: the PIN policy of _ctap2_get_assertion
ctap2_get_assertion_pin_policy(pin, info) ==
  IF TruthyStr(pin)
  THEN (IF PinProtocolVersion \notin info.pin_protocols
        THEN "unsupported" ELSE "get_pin_token")
  ELSE IF info.clientPin = Some(TRUE) THEN "pin_required"
  ELSE "no_pin"

\* a loop that forgets the assertion it already has
ctap2_next_count_all(n) == IF TruthyNum(n) THEN n[1] ELSE 1

\* line 350: range((number_of_credentials or 1) - 1)
ctap2_next_count(n) ==
  LET k == (IF TruthyNum(n) THEN n[1] ELSE 1) - 1
  IN IF k > 0 THEN k ELSE 0

\* a precondition that forgets uv
ctap1_make_credential_unsupported_rk(rk, uv) == rk

\* line 266
ctap1_make_credential_unsupported(rk, uv) == rk \/ uv

\* line 356
ctap1_get_assertion_unsupported(rk, uv, allow_list) ==
  rk \/ uv \/ allow_list = None \/ allow_list[1] = <<>>

\* a loop without the raise that follows a successful probe
ctap1_exclude_outcome_success_ignored(reply) ==
  IF reply = "USE_NOT_SATISFIED" THEN "CREDENTIAL_EXCLUDED" ELSE "continue"

\* lines 274-279: what _ctap1_make_credential does with the answer to the
\* check-only authenticate of an exclude_list entry
ctap1_exclude_outcome(reply) ==
  IF reply = "OK" THEN "CREDENTIAL_EXCLUDED"
  ELSE IF reply = "USE_NOT_SATISFIED" THEN "CREDENTIAL_EXCLUDED"
  ELSE "continue"

\* a probe without its check_only argument
ctap1_exclude_probe_signing(app_param, key_handle) ==
  Cmd("authenticate", dummy_param, app_param, key_handle, FALSE, None, None)

\* line 275: the check-only authenticate of an exclude_list entry
ctap1_exclude_probe(app_param, key_handle) ==
  Cmd("authenticate", dummy_param, app_param, key_handle, TRUE, None, None)

\* line 375: _ctap1_get_assertion catches ApduError only
ctap1_get_assertion_on_exception(exc) ==
  IF exc.kind = "ApduError" THEN "next" ELSE "propagate"

\* options of the CTAP2 commands, lines 250-257
ctap2_options(rk, uv) ==
  IF ~(rk \/ uv) THEN None
  ELSE Some([rk |-> rk, uv |-> uv])

\* make_credential(): verify the rp id, build the client data, dispatch
Fido2Client_make_credential ==
  /\ pc = "idle" /\ client.kind = "Fido2Client"
  /\ \E rp_id \in Ids, exclude_list \in CredLists, rk \in BOOLEAN, uv \in BOOLEAN,
        pin \in Pins, timeout \in Timeouts :
       /\ op' = "make_credential"
       /\ args' = [NoArgs EXCEPT !.id = rp_id, !.challenge = Challenge,
                                 !.list = exclude_list, !.rk = rk, !.uv = uv,
                                 !.pin = pin, !.timeout = timeout]
       /\ IF ~verify_id(client, rp_id)
          THEN /\ Finish(verify_id_raises(client, rp_id)[1])
               /\ UNCHANGED <<client_data, idx>>
          ELSE /\ client_data' = Some(ClientData_build("webauthn.create", Challenge,
                                                       client.origin))
               /\ IF client.do_make_credential = "_ctap2_make_credential"
                  THEN pc' = "mc2_info" /\ UNCHANGED <<result, idx>>
                  ELSE IF ctap1_make_credential_unsupported(rk, uv)
                  THEN Finish(CtapError("UNSUPPORTED_OPTION")) /\ UNCHANGED idx
                  ELSE pc' = "mc1_exclude" /\ idx' = 1 /\ UNCHANGED result
  /\ NoCtap2Locals /\ NoPolling
  /\ UNCHANGED <<client, supplied, device, log>>

\* _ctap2_make_credential: get_info and the PIN policy
ctap2_make_credential_info ==
  /\ pc = "mc2_info"
  /\ \/ /\ log' = Append(log, Answer(SimpleCmd("get_info"), "OPERATION_DENIED", None))
        /\ Finish(CtapError("OPERATION_DENIED")) /\ UNCHANGED pin_protocol
     \/ \E info \in Infos :
          LET policy == ctap2_make_credential_pin_policy(args.pin, info)
          IN /\ log' = Append(log, Answer(SimpleCmd("get_info"), "OK", Some(info)))
             /\ CASE policy = "unsupported" ->
                    /\ Finish(ValueError("Device does not support PIN protocol 1!"))
                    /\ pin_protocol' = client.pin_protocol
               [] policy = "get_pin_token" ->
                    /\ pc' = "mc2_token" /\ pin_protocol' = client.pin_protocol
                    /\ UNCHANGED result
               [] policy = "pin_required" ->
                    Finish(ValueError("PIN required!")) /\ UNCHANGED pin_protocol
               [] OTHER ->
                    pc' = "mc2_send" /\ UNCHANGED <<result, pin_protocol>>
  /\ NoPolling
  /\ UNCHANGED <<client, supplied, device, op, args, idx, client_data, pin_auth, assertions>>

\* self.pin_protocol.get_pin_token(pin), then pin_auth
\* the step keeping the PIN token it obtained on the client object
ctap2_make_credential_token_kept ==
  /\ pc = "mc2_token"
  /\ \/ /\ log' = Append(log, Answer(SimpleCmd("get_pin_token"), "PIN_INVALID", None))
        /\ Finish(CtapError("PIN_INVALID")) /\ UNCHANGED <<pin_auth, client>>
     \/ \E pin_token \in PinTokens :
          /\ log' = Append(log, Answer(SimpleCmd("get_pin_token"), "OK", Some(pin_token)))
          /\ client' = [f \in DOMAIN client \cup {"pin_token"} |->
                          IF f = "pin_token" THEN Some(pin_token) ELSE client[f]]
          /\ pin_auth' = Some(hmac_sha256_16(pin_token, ClientData_hash(client_data[1])))
          /\ pc' = "mc2_send" /\ UNCHANGED result
  /\ NoPolling
  /\ UNCHANGED <<supplied, device, op, args, idx, client_data, pin_protocol,
                 assertions>>

ctap2_make_credential_token ==
  /\ pc = "mc2_token"
  /\ \/ /\ log' = Append(log, Answer(SimpleCmd("get_pin_token"), "PIN_INVALID", None))
        /\ Finish(CtapError("PIN_INVALID")) /\ UNCHANGED pin_auth
     \/ \E pin_token \in PinTokens :
          /\ log' = Append(log, Answer(SimpleCmd("get_pin_token"), "OK", Some(pin_token)))
          /\ pin_auth' = Some(hmac_sha256_16(pin_token, ClientData_hash(client_data[1])))
          /\ pc' = "mc2_send" /\ UNCHANGED result
  /\ NoPolling
  /\ UNCHANGED <<client, supplied, device, op, args, idx, client_data, pin_protocol,
                 assertions>>

\* self.ctap.make_credential(...)
ctap2_make_credential_send ==
  /\ pc = "mc2_send"
  /\ \E reply \in Ctap2Replies :
       /\ log' = Append(log, Answer(
                    Cmd("make_credential", ClientData_hash(client_data[1]),
                        <<"rp", args.id, ctap2_options(args.rk, args.uv)>>, 0,
                        FALSE, pin_auth, pin_protocol),
                    reply, None))
       /\ IF reply = "OK"
          THEN Finish(Returned(<<"attestation", client_data[1]>>))
          ELSE Finish(CtapError(reply))
  /\ NoPolling /\ NoCtap2Locals
  /\ UNCHANGED <<client, supplied, device, op, args, idx, client_data>>

\* _ctap1_make_credential: one pass of the loop over exclude_list
ctap1_make_credential_exclude ==
  /\ pc = "mc1_exclude" /\ idx <= Len(ListOrEmpty(args.list))
  /\ LET cred == ListOrEmpty(args.list)[idx]
     IN \E reply \in ApduReplies :
          /\ log' = Append(log, Answer(ctap1_exclude_probe(sha256(args.id), cred.id),
                                        reply, None))
          /\ IF ctap1_exclude_outcome(reply) = "continue"
             THEN idx' = idx + 1 /\ UNCHANGED <<pc, result>>
             ELSE /\ Finish(CtapError(ctap1_exclude_outcome(reply)))
                  /\ UNCHANGED idx
  /\ NoCtap2Locals /\ NoPolling
  /\ UNCHANGED <<client, supplied, device, op, args, client_data>>

\* after the loop: _call_polling begins
ctap1_make_credential_register ==
  /\ pc = "mc1_exclude" /\ idx > Len(ListOrEmpty(args.list))
  /\ StartPolling(args.timeout)
  /\ pc' = "mc1_poll"
  /\ NoCtap2Locals
  /\ UNCHANGED <<client, supplied, device, op, args, idx, client_data, log, result>>

\* lines 285-307: the attestation object built from the registration
AttestationObject_create(app_param, reg_resp) ==
  [fmt |-> "fido-u2f",
   auth_data |-> [rp_id_hash |-> app_param, flags |-> 65, counter |-> 0,
                  aaguid |-> "zeros16", credential_id |-> reg_resp],
   att_statement |-> reg_resp]

\* _call_polling(self.ctap1_poll_delay, timeout, self.ctap.register, ...)
ctap1_make_credential_poll ==
  /\ pc = "mc1_poll"
  /\ IF event_is_set(clock, budget)
     THEN /\ Finish(ClientError("TIMEOUT"))
          /\ UNCHANGED <<clock, attempts, log>>
     ELSE \E reply \in ApduReplies :
            /\ attempts' = attempts + 1
            /\ log' = Polled(Cmd("register", ClientData_hash(client_data[1]),
                                 sha256(args.id), 0, FALSE, None, None), reply)
            /\ CASE call_polling_on_reply(reply) = "return" ->
                      /\ Finish(Returned(<<AttestationObject_create(sha256(args.id),
                                                                    "reg_resp"),
                                           client_data[1]>>))
                      /\ UNCHANGED clock
                 [] call_polling_on_reply(reply) = "wait" ->
                      /\ clock' = event_wait(clock, budget, client.poll_delay)
                      /\ UNCHANGED <<pc, result>>
                 [] OTHER ->
                      /\ Finish(ApduError(reply))
                      /\ UNCHANGED clock
  /\ NoCtap2Locals
  /\ UNCHANGED <<client, supplied, device, op, args, idx, client_data, budget>>

\* get_assertion(): verify the rp id, build the client data, dispatch
Fido2Client_get_assertion ==
  /\ pc = "idle" /\ client.kind = "Fido2Client"
  /\ \E rp_id \in Ids, allow_list \in CredLists, rk \in BOOLEAN, uv \in BOOLEAN,
        pin \in Pins, timeout \in Timeouts :
       /\ op' = "get_assertion"
       /\ args' = [NoArgs EXCEPT !.id = rp_id, !.challenge = Challenge,
                                 !.list = allow_list, !.rk = rk, !.uv = uv,
                                 !.pin = pin, !.timeout = timeout]
       /\ IF ~verify_id(client, rp_id)
          THEN /\ Finish(verify_id_raises(client, rp_id)[1])
               /\ UNCHANGED <<client_data, idx>>
          ELSE /\ client_data' = Some(ClientData_build("webauthn.get", Challenge,
                                                       client.origin))
               /\ IF client.do_get_assertion = "_ctap2_get_assertion"
                  THEN pc' = "ga2_info" /\ UNCHANGED <<result, idx>>
                  ELSE IF ctap1_get_assertion_unsupported(rk, uv, allow_list)
                  THEN Finish(CtapError("UNSUPPORTED_OPTION")) /\ UNCHANGED idx
                  ELSE pc' = "ga1_loop" /\ idx' = 1 /\ UNCHANGED result
  /\ NoCtap2Locals /\ NoPolling
  /\ UNCHANGED <<client, supplied, device, log>>

\* _ctap2_get_assertion: get_info and the PIN policy
ctap2_get_assertion_info ==
  /\ pc = "ga2_info"
  /\ \/ /\ log' = Append(log, Answer(SimpleCmd("get_info"), "OPERATION_DENIED", None))
        /\ Finish(CtapError("OPERATION_DENIED")) /\ UNCHANGED pin_protocol
     \/ \E info \in Infos :
          LET policy == ctap2_get_assertion_pin_policy(args.pin, info)
          IN /\ log' = Append(log, Answer(SimpleCmd("get_info"), "OK", Some(info)))
             /\ CASE policy = "unsupported" ->
                    /\ Finish(ValueError("Device does not support PIN protocol 1!"))
                    /\ pin_protocol' = client.pin_protocol
               [] policy = "get_pin_token" ->
                    /\ pc' = "ga2_token" /\ pin_protocol' = client.pin_protocol
                    /\ UNCHANGED result
               [] policy = "pin_required" ->
                    Finish(ValueError("PIN required!")) /\ UNCHANGED pin_protocol
               [] OTHER ->
                    pc' = "ga2_send" /\ UNCHANGED <<result, pin_protocol>>
  /\ NoPolling
  /\ UNCHANGED <<client, supplied, device, op, args, idx, client_data, pin_auth, assertions>>

\* self.pin_protocol.get_pin_token(pin), then pin_auth
ctap2_get_assertion_token ==
  /\ pc = "ga2_token"
  /\ \/ /\ log' = Append(log, Answer(SimpleCmd("get_pin_token"), "PIN_INVALID", None))
        /\ Finish(CtapError("PIN_INVALID")) /\ UNCHANGED pin_auth
     \/ \E pin_token \in PinTokens :
          /\ log' = Append(log, Answer(SimpleCmd("get_pin_token"), "OK", Some(pin_token)))
          /\ pin_auth' = Some(hmac_sha256_16(pin_token, ClientData_hash(client_data[1])))
          /\ pc' = "ga2_send" /\ UNCHANGED result
  /\ NoPolling
  /\ UNCHANGED <<client, supplied, device, op, args, idx, client_data, pin_protocol,
                 assertions>>

\* the AssertionResponse the device gives to the command at place i of the log
Response(i, n) == [from |-> i, number_of_credentials |-> n]

\* assertions.append(resp)
assertions_append(list, resp) == Append(list, resp)

\* the for loop of line 350 has made i of its passes: it goes on or returns
ctap2_get_assertion_loop(i, list) ==
  IF i < ctap2_next_count(list[1].number_of_credentials)
  THEN pc' = "ga2_next" /\ UNCHANGED result
  ELSE Finish(Returned(<<list, client_data[1]>>))

\* self.ctap.get_assertion(...): the first assertion
ctap2_get_assertion_send ==
  /\ pc = "ga2_send"
  /\ LET c == Cmd("get_assertion", ClientData_hash(client_data[1]),
                  <<"rp", args.id, ctap2_options(args.rk, args.uv)>>, 0,
                  FALSE, pin_auth, pin_protocol)
     IN
     \/ /\ log' = Append(log, Answer(c, "OPERATION_DENIED", None))
        /\ Finish(CtapError("OPERATION_DENIED")) /\ UNCHANGED <<assertions, idx>>
     \/ \E n \in NumCreds :
          /\ log' = Append(log, Answer(c, "OK", Some(Response(Len(log) + 1, n))))
          /\ assertions' = <<Response(Len(log) + 1, n)>>
          /\ idx' = 0
          /\ ctap2_get_assertion_loop(0, assertions')
  /\ NoPolling
  /\ UNCHANGED <<client, supplied, device, op, args, client_data, pin_auth, pin_protocol>>

\* one pass of the loop: self.ctap.get_next_assertion()
ctap2_get_assertion_next ==
  /\ pc = "ga2_next"
  /\ \/ /\ log' = Append(log, Answer(SimpleCmd("get_next_assertion"),
                                        "OPERATION_DENIED", None))
        /\ Finish(CtapError("OPERATION_DENIED")) /\ UNCHANGED <<assertions, idx>>
     \/ /\ log' = Append(log, Answer(SimpleCmd("get_next_assertion"), "OK",
                                        Some(Response(Len(log) + 1, None))))
        /\ assertions' = assertions_append(assertions, Response(Len(log) + 1, None))
        /\ idx' = idx + 1
        /\ ctap2_get_assertion_loop(idx + 1, assertions')
  /\ NoPolling
  /\ UNCHANGED <<client, supplied, device, op, args, client_data, pin_auth, pin_protocol>>

\* the head of the loop over allow_list: _call_polling begins, or the loop ends
ctap1_get_assertion_cred ==
  /\ pc = "ga1_loop"
  /\ IF idx > Len(args.list[1])
     THEN Finish(CtapError("NO_CREDENTIALS")) /\ NoPolling
     ELSE StartPolling(args.timeout) /\ pc' = "ga1_poll" /\ UNCHANGED result
  /\ NoCtap2Locals
  /\ UNCHANGED <<client, supplied, device, op, args, idx, client_data, log>>

\* an exception leaves _call_polling inside _ctap1_get_assertion's try
ctap1_get_assertion_except(exc) ==
  IF ctap1_get_assertion_on_exception(exc) = "next"
  THEN idx' = idx + 1 /\ pc' = "ga1_loop" /\ UNCHANGED result
  ELSE Finish(exc) /\ UNCHANGED idx

\* the response built with the head of the allow list for its credential
AssertionResponse_create_first_cred(cred, app_param, auth_resp) ==
  [credential |-> args.list[1][1],
   auth_data |-> [rp_id_hash |-> app_param, flags |-> auth_resp.user_presence % 2,
                  counter |-> auth_resp.counter],
   signature |-> auth_resp.signature]

\* lines 366-374
AssertionResponse_create(cred, app_param, auth_resp) ==
  [credential |-> cred,
   auth_data |-> [rp_id_hash |-> app_param, flags |-> auth_resp.user_presence % 2,
                  counter |-> auth_resp.counter],
   signature |-> auth_resp.signature]

\* _call_polling(self.ctap1_poll_delay, timeout, self.ctap.authenticate, ...)
ctap1_get_assertion_poll ==
  /\ pc = "ga1_poll"
  /\ IF event_is_set(clock, budget)
     THEN /\ ctap1_get_assertion_except(ClientError("TIMEOUT"))
          /\ UNCHANGED <<clock, attempts, log>>
     ELSE \E reply \in ApduReplies :
            /\ attempts' = attempts + 1
            /\ log' = Polled(Cmd("authenticate", ClientData_hash(client_data[1]),
                                 sha256(args.id), args.list[1][idx].id, FALSE,
                                 None, None), reply)
            /\ CASE call_polling_on_reply(reply) = "return" ->
                      /\ Finish(Returned(<<
                           <<AssertionResponse_create(
                               args.list[1][idx], sha256(args.id),
                               [user_presence |-> 1, counter |-> 1,
                                signature |-> <<"sig", idx>>])>>,
                           client_data[1]>>))
                      /\ UNCHANGED <<clock, idx>>
                 [] call_polling_on_reply(reply) = "wait" ->
                      /\ clock' = event_wait(clock, budget, client.poll_delay)
                      /\ UNCHANGED <<pc, result, idx>>
                 [] OTHER ->
                      /\ ctap1_get_assertion_except(ApduError(reply))
                      /\ UNCHANGED clock
  /\ NoCtap2Locals
  /\ UNCHANGED <<client, supplied, device, op, args, client_data, budget>>

\* the caller has the ceremony's outcome; the client is ready for the next
Return ==
  /\ pc = "done"
  /\ pc' = "idle" /\ op' = "none" /\ args' = NoArgs /\ idx' = 0
  /\ client_data' = None /\ pin_auth' = None /\ pin_protocol' = None
  /\ clock' = 0 /\ budget' = 0 /\ attempts' = 0 /\ assertions' = <<>>
  /\ log' = <<>> /\ result' = NoResult
  /\ UNCHANGED <<client, supplied, device>>

Next ==
  \/ U2fClient_register
  \/ U2fClient_register_check
  \/ U2fClient_register_request
  \/ U2fClient_register_poll
  \/ U2fClient_sign
  \/ U2fClient_sign_key
  \/ U2fClient_sign_poll
  \/ Fido2Client_make_credential
  \/ ctap2_make_credential_info
  \/ ctap2_make_credential_token
  \/ ctap2_make_credential_send
  \/ ctap1_make_credential_exclude
  \/ ctap1_make_credential_register
  \/ ctap1_make_credential_poll
  \/ Fido2Client_get_assertion
  \/ ctap2_get_assertion_info
  \/ ctap2_get_assertion_token
  \/ ctap2_get_assertion_send
  \/ ctap2_get_assertion_next
  \/ ctap1_get_assertion_cred
  \/ ctap1_get_assertion_poll
  \/ Return

Spec == Init /\ [][Next]_vars

\* ------------------------------------------------------------- claims
LogIdx == 1..Len(log)
Ctap1Bound == client.kind = "Fido2Client" /\ client.ctap = "CTAP1"
Ctap2Bound == client.kind = "Fido2Client" /\ client.ctap = "CTAP2"
\* a polled (not check-only) authenticate was sent for key handle k
TriedKey(k) ==
  \E i \in LogIdx :
    log[i].cmd = "authenticate" /\ ~log[i].check_only /\ log[i].key = k
Sent(c) == \E i \in LogIdx : log[i].cmd = c

\* C1: with timeout = 0 the polling driver calls the wrapped operation at most
\* once and never waits: a USE_NOT_SATISFIED answer is followed by TIMEOUT at
\* once.
C1_TimeoutZeroOneAttempt ==
  args.timeout = Some(0) => (attempts <= 1 /\ clock = 0)

\* C2: no ceremony (register, sign, make_credential, get_assertion) ends with
\* an error whose status is USE_NOT_SATISFIED, whatever the device answers.
C2_UseNotSatisfiedNeverSurfaced ==
  pc = "done" => result.code # "USE_NOT_SATISFIED"

\* a ceremony has ended in which the device answered USE_NOT_SATISFIED
C2_Witness ==
  /\ pc = "done"
  /\ \E i \in LogIdx : log[i].reply = "USE_NOT_SATISFIED"

C3_Case == op = "sign" \/ (op = "get_assertion" /\ Ctap1Bound)
C3_Candidates ==
  IF op = "sign"
  THEN {k \in 1..Len(args.keys) : args.keys[k].version = DeviceVersion}
  ELSE 1..Len(ListOrEmpty(args.list))
C3_FinalError ==
  IF op = "sign" THEN ClientError("DEVICE_INELIGIBLE")
  ELSE CtapError("NO_CREDENTIALS")
\* the ceremony raised, and not for its arguments
C3_Failed ==
  /\ result.kind \notin {"ok", "none"}
  /\ result.code \notin {"BAD_REQUEST", "UNSUPPORTED_OPTION"}

\* C3 as claimed: in sign and in the CTAP1 get_assertion every failure of a
\* candidate's polled authenticate, the exhaustion of its polling budget
\* included, is silent: the ceremony raises only when every candidate has been
\* tried, and then DEVICE_INELIGIBLE (sign) or NO_CREDENTIALS (get_assertion).
C3_EveryFailureSilent ==
  (pc = "done" /\ C3_Case /\ C3_Failed) =>
    /\ result = C3_FinalError
    /\ \A k \in C3_Candidates : TriedKey(k)

\* C3 amended: an ApduError of a candidate's polled authenticate is silent and
\* the next candidate is tried; the ceremony raises DEVICE_INELIGIBLE (sign) or
\* NO_CREDENTIALS (get_assertion) only when every candidate has been tried.
\* The exhaustion of a candidate's polling budget is not silent: the ceremony
\* raises TIMEOUT and no later candidate is tried.
C3_ApduFailureSilent ==
  /\ (C3_Case /\ pc \in {"sign_loop", "sign_poll", "ga1_loop", "ga1_poll"}) =>
       \A k \in C3_Candidates : k < idx => TriedKey(k)
  /\ (pc = "done" /\ C3_Case) =>
       /\ result.kind # "ApduError"
       /\ (budget > 0 /\ clock >= budget) => result = ClientError("TIMEOUT")
       /\ C3_Failed =>
            \/ /\ result = C3_FinalError
               /\ \A k \in C3_Candidates : TriedKey(k)
            \/ /\ result = ClientError("TIMEOUT")
               /\ clock >= budget
               /\ TriedKey(idx)
               /\ \A k \in C3_Candidates : k > idx => ~TriedKey(k)

\* two candidates failed with an ApduError one after the other and the
\* ceremony raised its final error
C3_Witness ==
  /\ pc = "done" /\ C3_Case /\ result = C3_FinalError
  /\ Cardinality(C3_Candidates) >= 2
  /\ \A k \in C3_Candidates :
       \E i \in LogIdx : /\ log[i].cmd = "authenticate" /\ log[i].key = k
                         /\ log[i].reply = "WRONG_DATA"

\* the check-only authenticates of register
C4_Checks == {i \in LogIdx : log[i].cmd = "authenticate" /\ log[i].check_only}

\* C4: in register, a check-only authenticate answered with success or with
\* USE_NOT_SATISFIED ends the ceremony with DEVICE_INELIGIBLE and nothing is
\* sent after it (no register command); one answered with another error leaves
\* the ceremony running, the loop going on to the next key.
C4_RegisterCheckOnly ==
  op = "register" =>
    \A i \in C4_Checks :
      IF log[i].reply \in {"OK", "USE_NOT_SATISFIED"}
      THEN /\ pc = "done" /\ result = ClientError("DEVICE_INELIGIBLE")
           /\ i = Len(log) /\ ~Sent("register")
      ELSE /\ idx > log[i].key
           /\ (i = Len(log) /\ pc = "done") => result.code # "WRONG_DATA"

\* a key's check failed with another error, the next key's check answered
\* USE_NOT_SATISFIED and register ended with DEVICE_INELIGIBLE
C4_Witness ==
  /\ op = "register" /\ pc = "done"
  /\ result = ClientError("DEVICE_INELIGIBLE")
  /\ \E i, j \in C4_Checks :
       /\ i < j
       /\ log[i].reply = "WRONG_DATA"
       /\ log[j].reply = "USE_NOT_SATISFIED"

Ctap2Ceremony == Ctap2Bound /\ op \in {"make_credential", "get_assertion"}
\* the places of the log where get_info was answered
C5_Infos == {i \in LogIdx : log[i].cmd = "get_info" /\ log[i].reply = "OK"}
C5_Refused ==
  /\ pc = "done" /\ result.kind = "ValueError"
  /\ ~Sent("make_credential") /\ ~Sent("get_assertion")

\* C5: on the CTAP2 path, when the caller passes no PIN and the device reports
\* clientPin, or passes a PIN and the device's pin_protocols lacks version 1,
\* the ceremony fails with a configuration error before make_credential or
\* get_assertion is sent and, in the second case, before a PIN token is asked.
C5_PinPolicyFailsEarly ==
  Ctap2Ceremony =>
    \A i \in C5_Infos :
      LET info == log[i].resp[1]
      IN /\ (args.pin = None /\ info.clientPin = Some(TRUE)) => C5_Refused
         /\ (args.pin # None /\ PinProtocolVersion \notin info.pin_protocols) =>
              (C5_Refused /\ ~Sent("get_pin_token"))

\* C6: every CTAP2 make_credential or get_assertion command carries pin_auth
\* (and pin_protocol) if and only if the caller passed a PIN, the empty string
\* included.
C6_PinAuthIffPin ==
  \A i \in LogIdx :
    log[i].cmd \in {"make_credential", "get_assertion"} =>
      /\ (log[i].pin_auth # None) <=> (args.pin # None)
      /\ (log[i].pin_protocol # None) <=> (args.pin # None)

C7_Nexts == {i \in LogIdx : log[i].cmd = "get_next_assertion"}
\* max(n, 1) - 1, a missing number_of_credentials counting as 1
C7_Expected(n) ==
  IF n = None THEN 0 ELSE IF n[1] > 1 THEN n[1] - 1 ELSE 0

\* C7: on the CTAP2 get_assertion path, with number_of_credentials = n in the
\* first response, get_next_assertion is called max(n, 1) - 1 times (never
\* more, and fewer only when the device fails a call), each call after the
\* get_assertion command, and the list returned is the first response followed
\* by the responses to those calls in call order.
C7_GetNextAssertionCount ==
  (Ctap2Bound /\ op = "get_assertion") =>
    /\ \A j \in C7_Nexts :
         \E i \in 1..(j - 1) : log[i].cmd = "get_assertion" /\ log[i].reply = "OK"
    /\ \A i \in LogIdx :
         (log[i].cmd = "get_assertion" /\ log[i].reply = "OK") =>
           LET want == C7_Expected(log[i].resp[1].number_of_credentials)
               made == Cardinality(C7_Nexts)
           IN /\ made <= want
              /\ pc = "ga2_next" => made < want
              /\ (pc = "done" /\ result.kind # "ok") =>
                   log[Len(log)].reply # "OK"
              /\ (pc = "done" /\ result.kind = "ok") =>
                   LET list == result.value[1][1]
                   IN /\ made = want
                      /\ Len(list) = want + 1
                      /\ \A k \in 1..Len(list) :
                           /\ list[k] = log[i + k - 1].resp[1]
                           /\ k > 1 => log[i + k - 1].cmd = "get_next_assertion"

\* a get_assertion that reported three credentials has returned
C7_Witness ==
  /\ Ctap2Bound /\ op = "get_assertion" /\ pc = "done" /\ result.kind = "ok"
  /\ Cardinality(C7_Nexts) = 2
  /\ \E i \in LogIdx :
       /\ log[i].cmd = "get_assertion"
       /\ log[i].resp = Some(Response(i, Some(3)))

C8_Unsupported ==
  \/ args.rk
  \/ args.uv
  \/ op = "get_assertion" /\ (args.list = None \/ args.list = Some(<<>>))

\* C8: on a CTAP1-bound Fido2Client whose rp id is verified, make_credential
\* with rk or uv, and get_assertion with rk or uv or with an empty or absent
\* allow_list, fail with UNSUPPORTED_OPTION and send no register or
\* authenticate command.
C8_Ctap1UnsupportedOption ==
  (/\ Ctap1Bound /\ op \in {"make_credential", "get_assertion"}
   /\ verify_id(client, args.id) /\ C8_Unsupported) =>
    /\ pc = "done" /\ result = CtapError("UNSUPPORTED_OPTION")
    /\ ~Sent("register") /\ ~Sent("authenticate")

\* a make_credential with uv alone was refused
C8_Witness ==
  /\ Ctap1Bound /\ op = "make_credential" /\ args.uv /\ ~args.rk
  /\ pc = "done" /\ result = CtapError("UNSUPPORTED_OPTION")

Ctap1MakeCredential == Ctap1Bound /\ op = "make_credential"
C9_Probes == {i \in LogIdx : log[i].cmd = "authenticate"}

\* C9: on the CTAP1 make_credential path, a probe of an exclude_list entry
\* answered with success or with USE_NOT_SATISFIED ends the ceremony with
\* CREDENTIAL_EXCLUDED, nothing being sent after it (no later probe, no
\* register); a probe answered with another error is ignored, the loop going
\* on to the next entry.
C9_ExcludeListProbe ==
  Ctap1MakeCredential =>
    \A i \in C9_Probes :
      IF log[i].reply \in {"OK", "USE_NOT_SATISFIED"}
      THEN /\ pc = "done" /\ result = CtapError("CREDENTIAL_EXCLUDED")
           /\ i = Len(log) /\ ~Sent("register")
      ELSE /\ idx > log[i].key
           /\ (i = Len(log) /\ pc = "done") => result.code # "WRONG_DATA"

\* a probe failed with another error, the next probe succeeded and the
\* ceremony ended with CREDENTIAL_EXCLUDED
C9_Witness ==
  /\ Ctap1MakeCredential /\ pc = "done"
  /\ result = CtapError("CREDENTIAL_EXCLUDED")
  /\ \E i, j \in C9_Probes :
       i < j /\ log[i].reply = "WRONG_DATA" /\ log[j].reply = "OK"

\* C10: every authenticate command of a CTAP1 make_credential ceremony is
\* check-only.
C10_OnlyCheckOnly ==
  Ctap1MakeCredential =>
    \A i \in LogIdx : log[i].cmd = "authenticate" => log[i].check_only

\* a CTAP1 make_credential probed its whole exclude_list and registered
C10_Witness ==
  /\ Ctap1MakeCredential /\ pc = "done" /\ result.kind = "ok"
  /\ Cardinality(C9_Probes) = Len(ListOrEmpty(args.list))
  /\ Cardinality(C9_Probes) >= 2
  /\ Sent("register")

\* the ClientData handed back to the caller by a ceremony that returned
ReturnedClientData ==
  IF op \in {"register", "sign"}
  THEN websafe_decode(result.value[1].clientData)
  ELSE result.value[1][2]
\* the commands that carry a challenge parameter
C11_Challenged == {i \in LogIdx : log[i].chal # None}

\* C11 as claimed: the challenge parameter of every command of a ceremony is
\* the hash of the ClientData built for the ceremony.
C11_EveryChallengeIsClientDataHash ==
  \A i \in C11_Challenged :
    client_data # None /\ log[i].chal = sha256(client_data[1])

\* C11 amended: the challenge parameter of every command that is not a
\* check-only authenticate (register, polled authenticate, make_credential,
\* get_assertion) is the SHA-256 of the ClientData built for the ceremony, and
\* that ClientData is the one returned to the caller; the check-only
\* authenticates of register and of the CTAP1 make_credential carry 32 zero
\* bytes instead.
C11_ChallengeIsClientDataHash ==
  /\ \A i \in C11_Challenged :
       IF log[i].check_only
       THEN log[i].chal = dummy_param
       ELSE client_data # None /\ log[i].chal = sha256(client_data[1])
  /\ (pc = "done" /\ result.kind = "ok") =>
       /\ ReturnedClientData = client_data[1]
       /\ \A i \in C11_Challenged :
            ~log[i].check_only => log[i].chal = sha256(ReturnedClientData)

\* a register that probed a registered key and then registered has returned
C11_Witness ==
  /\ op = "register" /\ pc = "done" /\ result.kind = "ok"
  /\ \E i, j \in C11_Challenged :
       /\ log[i].check_only /\ log[i].chal = dummy_param
       /\ log[j].cmd = "register" /\ log[j].chal = sha256(client_data[1])

\* a ceremony whose identifier the client's verifier does not accept
C12_Rejected ==
  /\ op \in {"register", "make_credential", "get_assertion"}
  /\ Verify(client.verify, args.id, client.origin) # "true"

\* C12: when the verifier the client holds returns false or raises for the
\* app id of register or the rp id of make_credential / get_assertion, the
\* ceremony has failed with BAD_REQUEST and has sent no command to the device;
\* the verifier's own exception is never the outcome.
C12_VerifierRejectionIsBadRequest ==
  C12_Rejected =>
    pc = "done" /\ result = ClientError("BAD_REQUEST") /\ log = <<>>

\* a ceremony was refused because the verifier raised
C12_Witness ==
  /\ C12_Rejected /\ pc = "done"
  /\ Verify(client.verify, args.id, client.origin) = "raise"

\* the commands of each protocol
Ctap1Commands == {"get_version", "register", "authenticate"}
Ctap2Commands == {"get_info", "get_pin_token", "make_credential",
                  "get_assertion", "get_next_assertion"}
C13_BoundToCtap2 ==
  /\ client.ctap = "CTAP2" /\ client.pin_protocol # None
  /\ client.do_make_credential = "_ctap2_make_credential"
  /\ client.do_get_assertion = "_ctap2_get_assertion"
C13_BoundToCtap1 ==
  /\ client.ctap = "CTAP1"
  /\ client.do_make_credential = "_ctap1_make_credential"
  /\ client.do_get_assertion = "_ctap1_get_assertion"

\* C13: a Fido2Client is bound to CTAP2 when CTAP2 and its PIN protocol
\* initialised on the device and to CTAP1 otherwise; its transport and its two
\* dispatch targets are always of that one protocol, and every command a
\* ceremony sends is a command of the protocol the transport is bound to.
C13_OneProtocol ==
  client.kind = "Fido2Client" =>
    /\ IF device = "ctap2" THEN C13_BoundToCtap2 ELSE C13_BoundToCtap1
    /\ \A i \in LogIdx :
         /\ log[i].cmd \in Ctap2Commands => client.ctap = "CTAP2"
         /\ log[i].cmd \in Ctap1Commands => client.ctap = "CTAP1"

\* a client whose PIN protocol failed to initialise has sent a CTAP1 command
C13_Witness ==
  /\ client.kind = "Fido2Client" /\ device = "ctap2_no_pin_protocol"
  /\ op = "get_assertion" /\ Sent("authenticate")

\* the attributes the constructors give a client
C14_Fields == {"kind", "poll_delay", "ctap", "origin", "verify", "pin_protocol",
               "do_make_credential", "do_get_assertion"}

\* C14: no step of any ceremony changes a field of the client (origin,
\* verifier, transport, dispatch targets, poll delay) or adds one, so no PIN
\* token or PIN auth is kept on it; what a ceremony computed is gone when it
\* has returned, so the next ceremony starts from the constructed client alone.
C14_Stateless ==
  [][/\ client' = client
     /\ DOMAIN client' = C14_Fields
     /\ pc' = "idle" =>
          /\ op' = "none" /\ args' = NoArgs /\ idx' = 0 /\ client_data' = None
          /\ pin_auth' = None /\ pin_protocol' = None /\ assertions' = <<>>
          /\ log' = <<>> /\ result' = NoResult]_vars

\* a ceremony that computed a PIN auth has ended and the client is as built
C14_Witness ==
  /\ pc = "done" /\ pin_auth # None
  /\ client = Fido2Client_init(device, Origin, supplied)

\* the client runs on: a step that can be taken is taken, and the timer of
\* _call_polling fires
FairSpec == Spec /\ WF_vars(Next)

\* _call_polling is running
PollPcs == {"register_poll", "sign_poll", "mc1_poll", "ga1_poll"}
PollActive == pc \in PollPcs
\* a _call_polling has ended and the last answer it got was USE_NOT_SATISFIED,
\* so every answer was (any other answer ends it at once)
C15_EndedUnsatisfied ==
  /\ ~PollActive /\ attempts > 0
  /\ log[Len(log)].reply = "USE_NOT_SATISFIED"

\* C15: a running _call_polling always comes to an end; one that got
\* USE_NOT_SATISFIED on every attempt ends by raising TIMEOUT once its budget
\* is used up, never with a result; with no timeout given the budget is 30 s.
C15_PollingTimesOut ==
  /\ [](C15_EndedUnsatisfied =>
          /\ pc = "done" /\ result = ClientError("TIMEOUT")
          /\ clock >= budget)
  /\ [](PollActive /\ args.timeout = None =>
          budget = DefaultTimeout * TicksPerSecond)
  /\ (PollActive ~> ~PollActive)

\* no timeout was given and the driver gave up after 30 s of refusals
C15_Witness ==
  /\ C15_EndedUnsatisfied /\ args.timeout = None
  /\ result = ClientError("TIMEOUT")
  /\ clock = DefaultTimeout * TicksPerSecond

\* ceil(a / b)
C16_Ceil(a, b) == (a + b - 1) \div b

\* C16: under a timeout T > 0 and a poll delay d, a _call_polling makes at most
\* ceil(T / d) attempts (4 for T = 1 s, d = 0.25 s); while it runs (every
\* answer so far was USE_NOT_SATISFIED) it has slept d per attempt, the last
\* sleep cut when the budget ran out.
C16_AttemptBound ==
  (op # "none" /\ TruthyNum(args.timeout)) =>
    /\ attempts <= C16_Ceil(args.timeout[1], client.poll_delay)
    /\ args.timeout[1] = TicksPerSecond /\ client.poll_delay * 4 = TicksPerSecond
         => attempts <= 4
    /\ PollActive => clock = Min(attempts * client.poll_delay, args.timeout[1])

\* a timeout the delay does not divide: the last sleep was cut short and
\* TIMEOUT came after ceil(T / d) refused attempts
C16_Witness ==
  /\ TruthyNum(args.timeout) /\ C15_EndedUnsatisfied
  /\ args.timeout[1] % client.poll_delay # 0 /\ attempts > 1
  /\ attempts = C16_Ceil(args.timeout[1], client.poll_delay)
  /\ result = ClientError("TIMEOUT")

\* the answer to the attempt a step has just made
C17_Reply == log'[Len(log')].reply

\* C17: an attempt of _call_polling answered with an error other than
\* USE_NOT_SATISFIED ends the driver with that same error (register and the
\* CTAP1 make_credential let it out as it is, sign and the CTAP1 get_assertion
\* take it as "next key"); an attempt that succeeds ends it with a result; in
\* both cases the operation is not called again, and a driver still running
\* has only had USE_NOT_SATISFIED.
C17_PropagatesAndStops ==
  [][(PollActive /\ attempts' = attempts + 1) =>
       /\ C17_Reply = "OK" => pc' = "done" /\ result'.kind = "ok"
       /\ C17_Reply \notin {"OK", "USE_NOT_SATISFIED"} =>
            /\ ~PollActive'
            /\ op \in {"register", "make_credential"} =>
                 pc' = "done" /\ result' = ApduError(C17_Reply)
            /\ op \in {"sign", "get_assertion"} =>
                 pc' \in {"sign_loop", "ga1_loop"} /\ idx' = idx + 1
       /\ PollActive' => C17_Reply = "USE_NOT_SATISFIED" /\ pc' = pc]_vars

\* register ended with the device's WRONG_DATA after some refused attempts
C17_Witness ==
  /\ op = "register" /\ pc = "done" /\ attempts > 1
  /\ log[Len(log)].cmd = "register"
  /\ result = ApduError("WRONG_DATA")

\* the polled authenticates of a sign, as positions of the log
C18_Auths == {i \in LogIdx : log[i].cmd = "authenticate"}
C18_Matching == {k \in 1..Len(args.keys) : args.keys[k].version = DeviceVersion}

\* C18: sign sends an authenticate only for keys whose version is the
\* device's, in the caller's order and skipping none of them; an authenticate
\* that succeeds is the last command of the ceremony, and the keyHandle and
\* signatureData returned are those of the key it was sent for.
C18_FirstSuccessWins ==
  op = "sign" =>
    /\ \A i \in C18_Auths :
         /\ log[i].key \in C18_Matching
         /\ \A k \in C18_Matching : k < log[i].key => TriedKey(k)
         /\ \A j \in C18_Auths : i < j => log[i].key < log[j].key
         /\ log[i].reply = "OK" =>
              i = Len(log) /\ pc = "done" /\ result.kind = "ok"
    /\ (pc = "done" /\ result.kind = "ok") =>
         /\ Len(log) \in C18_Auths /\ log[Len(log)].reply = "OK"
         /\ result.value[1].keyHandle = KeyHandleB64(log[Len(log)].key)
         /\ result.value[1].signatureData =
              websafe_encode(<<"sig", log[Len(log)].key>>)

\* the first key's authenticate failed, the second key signed, a third key
\* or a key of another version may follow or precede
C18_Witness ==
  /\ op = "sign" /\ pc = "done" /\ result.kind = "ok"
  /\ \E i \in C18_Auths : log[i].reply = "WRONG_DATA" /\ log[i].key = 1
  /\ log[Len(log)].key = 2
  /\ result.value[1].keyHandle = KeyHandleB64(2)

\* the assertions a get_assertion returned
C19_Assertions == result.value[1][1]
\* the allow-list position of the last authenticate sent
C19_Matched == log[Len(log)].key

\* C19: the CTAP1 get_assertion sends one polled authenticate per allow-list
\* entry in the caller's order, skipping none; the first that succeeds ends
\* the ceremony, which returns exactly one AssertionResponse whose credential
\* is the entry that authenticate was sent for.
C19_Ctap1OneAssertion ==
  (op = "get_assertion" /\ Ctap1Bound) =>
    /\ \A i \in LogIdx :
         /\ log[i].cmd = "authenticate" /\ ~log[i].check_only
         /\ log[i].key = i /\ i <= Len(args.list[1])
         /\ log[i].reply = "OK" =>
              i = Len(log) /\ pc = "done" /\ result.kind = "ok"
    /\ (pc = "done" /\ result.kind = "ok") =>
         /\ log # <<>> /\ log[Len(log)].reply = "OK"
         /\ Len(C19_Assertions) = 1
         /\ C19_Assertions[1].credential = args.list[1][C19_Matched]
         /\ C19_Assertions[1].signature = <<"sig", C19_Matched>>
         /\ C19_Assertions[1].auth_data.rp_id_hash = sha256(args.id)

\* the first entry was refused, the second matched, over CTAP1
C19_Witness ==
  /\ op = "get_assertion" /\ Ctap1Bound /\ pc = "done" /\ result.kind = "ok"
  /\ Len(log) = 2 /\ log[1].reply = "WRONG_DATA"
  /\ C19_Assertions[1].credential = args.list[1][2]

\* a ceremony whose identifier the verifier given to the constructor does not
\* accept
C20_SuppliedRejects ==
  /\ op \in {"register", "make_credential", "get_assertion"}
  /\ Verify(supplied, args.id, client.origin) # "true"

\* C20: the verifier consulted is the one given to the constructor, so a
\* ceremony whose app id or rp id that verifier rejects has failed with
\* BAD_REQUEST and has sent nothing to the device.
C20_SuppliedVerifierDecides ==
  C20_SuppliedRejects =>
    pc = "done" /\ result = ClientError("BAD_REQUEST") /\ log = <<>>

====
